---- MODULE Spec2Model ----
(***************************************************************************)
(* Model of src/app.py: a Flask application with two routes, "/" (index)   *)
(* and "/data" (data), over one pymongo collection (flask_db.data).        *)
(*                                                                         *)
(* Each request is served by one handler thread.  The view functions are   *)
(* split at their statement boundaries (get_json / insert_one / return,    *)
(* find / return) so that concurrent requests interleave the way a         *)
(* threaded WSGI server interleaves them.  The database executes one       *)
(* insert_one or one find atomically (single-document atomicity); whether  *)
(* the MongoDB server behind MONGODB_URI can be reached is an input of     *)
(* each database call.                                                     *)
(*                                                                         *)
(* Library behaviour the code relies on is modelled as the current         *)
(* releases document it: Request.get_json() raises 415 when the mimetype   *)
(* is not JSON and 400 when the body does not parse; insert_one() raises   *)
(* TypeError for a non-mapping, adds an ObjectId "_id" when the document   *)
(* has none and raises DuplicateKeyError on a repeated "_id"; an unhandled *)
(* exception in a view becomes a 500 response.                             *)
(***************************************************************************)
EXTENDS Integers, Sequences, FiniteSets, TLC

\* ---------------------------------------------------------------- bounds
\* Requests served in one run; each is served by a thread of its own.
MaxRequests == 3
\* Requests being served at the same time.
MaxInFlight == 2

Threads == 1..MaxRequests

\* ------------------------------------------------------------ JSON values
\* A scalar is a tagged pair; an object is a function from keys to scalars.
Int1 == <<"int", 1>>
Int2 == <<"int", 2>>
ObjectId(n) == <<"oid", n>>
EmptyObj == [k \in {} |-> Int1]

Keys(o) == DOMAIN o

\* {"a": 1}, {"b": 2}, {"_id": 1, "a": 1}
DocA == [a |-> Int1]
DocB == [b |-> Int2]
DocIdA == [_id |-> Int1, a |-> Int1]
Documents == {DocA, DocB, DocIdA}

JsonObject(o) == [type |-> "object", obj |-> o]
JsonOther(ty) == [type |-> ty, obj |-> EmptyObj]
None == JsonOther("null")
NonObjectTypes == {"array"}

\* --------------------------------------------------------------- requests
\* A request body: its mimetype, whether its bytes parse as JSON, and the
\* value they parse to.
JsonBody(v) == [mimetype |-> "application/json", parses |-> TRUE, value |-> v]
MalformedBody == [mimetype |-> "application/json", parses |-> FALSE, value |-> None]
NoBody == [mimetype |-> "", parses |-> FALSE, value |-> None]

PostBodies ==
    {JsonBody(JsonObject(d)) : d \in Documents}
        \cup {JsonBody(JsonOther(ty)) : ty \in NonObjectTypes}
        \cup {MalformedBody, NoBody}

Request(m, p, b) == [method |-> m, path |-> p, body |-> b]

Requests ==
    {Request("POST", "/data", b) : b \in PostBodies}
        \cup {Request(m, "/data", NoBody) : m \in {"GET", "HEAD", "DELETE"}}
        \cup {Request("GET", "/", NoBody), Request("GET", "/missing", NoBody)}

NoRequest == Request("", "", NoBody)

\* -------------------------------------------------------------- responses
Welcome == "Welcome to the Flask app!"
Times == {"2024-01-01 00:00:00", "2024-01-01 00:00:01"}

Response(s, k, t, o, ds) ==
    [status |-> s, kind |-> k, text |-> t, obj |-> o, docs |-> ds]
NoResponse == Response(0, "", <<>>, EmptyObj, <<>>)

\* jsonify(x), status
jsonify_object(o, s) == Response(s, "json_object", <<>>, o, <<>>)
jsonify_list(ds, s) == Response(s, "json_array", <<>>, EmptyObj, ds)
\* werkzeug's page for an HTTPException or for an unhandled exception
error_page(s, name) == Response(s, "error", <<name>>, EmptyObj, <<>>)

VARIABLES
    collection,   \* flask_db.data: the stored documents, in insertion order
    inc,          \* ObjectId's process-wide counter
    pc,           \* per thread: the statement it is about to execute
    req,          \* per thread: the request it serves (flask.request)
    data,         \* per thread: the local `data` of the POST branch
    found,        \* per thread: the local `data` of the GET branch
    ops,          \* per thread: database calls made for its request
    resp,         \* per thread: the response it sent
    before        \* per GET /data thread: the /data requests answered before
                  \* its own arrived

vars == <<collection, inc, pc, req, data, found, ops, resp, before>>

NoExc == [status |-> 0, name |-> ""]
Exc(s, n) == [status |-> s, name |-> n]

Init ==
    /\ collection = <<>>
    /\ inc = 0
    /\ pc = [t \in Threads |-> "new"]
    /\ req = [t \in Threads |-> NoRequest]
    /\ data = [t \in Threads |-> None]
    /\ found = [t \in Threads |-> <<>>]
    /\ ops = [t \in Threads |-> 0]
    /\ resp = [t \in Threads |-> NoResponse]
    /\ before = [t \in Threads |-> {}]

InFlight == {t \in Threads : pc[t] \notin {"new", "done"}}

\* The response leaves and the thread ends; its locals are gone.
Send(t, rs) ==
    /\ resp' = [resp EXCEPT ![t] = rs]
    /\ pc' = [pc EXCEPT ![t] = "done"]
    /\ data' = [data EXCEPT ![t] = None]
    /\ found' = [found EXCEPT ![t] = <<>>]

\* Flask turns an HTTPException into its response and any other exception
\* that leaves a view into a 500 response.
handle_exception(t, e) == Send(t, error_page(e.status, e.name))

\* ---------------------------------------------------------------- routing
\* @app.route("/") registers GET (plus HEAD, OPTIONS); @app.route("/data",
\* methods=["GET", "POST"]) registers GET, POST (plus HEAD, OPTIONS).
url_map(p) ==
    IF p = "/" THEN {"GET", "HEAD"}
    ELSE IF p = "/data" THEN {"GET", "POST", "HEAD"}
    ELSE {}

\* The view a request is routed to, or the HTTPException routing raises.
dispatch_request(r) ==
    IF url_map(r.path) = {} THEN [pc |-> "raise", exc |-> Exc(404, "NotFound")]
    ELSE IF r.method \notin url_map(r.path)
        THEN [pc |-> "raise", exc |-> Exc(405, "MethodNotAllowed")]
    ELSE IF r.path = "/" THEN [pc |-> "index", exc |-> NoExc]
    ELSE [pc |-> "data", exc |-> NoExc]

\* The t-th request arrives and is routed: to its view, or to an error page.
Receive(t, r) ==
    /\ pc[t] = "new"
    /\ \A u \in Threads : u < t => pc[u] # "new"
    /\ req' = [req EXCEPT ![t] = r]
    /\ Cardinality(InFlight) < MaxInFlight
    /\ before' = [before EXCEPT ![t] =
            IF r.path = "/data" /\ r.method = "GET"
            THEN {u \in Threads : pc[u] = "done" /\ req[u].path = "/data"}
            ELSE {}]
    /\ LET d == dispatch_request(r)
       IN IF d.exc # NoExc
            THEN handle_exception(t, d.exc)
            ELSE /\ pc' = [pc EXCEPT ![t] = d.pc]
                 /\ UNCHANGED <<data, found, resp>>
    /\ UNCHANGED <<collection, inc, ops>>

\* ------------------------------------------------------------------ index
\* Variant: the greeting is preceded by a ping of the database.
index_ping(t) ==
    /\ pc[t] = "index"
    /\ \E up \in BOOLEAN : \E now \in Times :
        IF up
        THEN Send(t, Response(200, "text", <<Welcome, " The current time is: ", now>>,
                              EmptyObj, <<>>))
        ELSE Send(t, error_page(500, "ServerSelectionTimeoutError"))
    /\ ops' = [ops EXCEPT ![t] = @ + 1]
    /\ UNCHANGED <<collection, inc, req, before>>

\* return f"Welcome to the Flask app! The current time is: {datetime.now()}"
index(t) ==
    /\ pc[t] = "index"
    /\ \E now \in Times :
        Send(t, Response(200, "text", <<Welcome, " The current time is: ", now>>,
                         EmptyObj, <<>>))
    /\ UNCHANGED <<collection, inc, req, ops, before>>

\* ------------------------------------------------------------ data: POST
\* Variant: get_json(silent=True), which returns None instead of aborting.
get_json_silent(b) ==
    IF b.mimetype # "application/json" \/ ~b.parses
        THEN [value |-> None, exc |-> NoExc]
    ELSE [value |-> b.value, exc |-> NoExc]

\* request.get_json(): the parsed body, or the HTTPException it aborts with.
get_json(b) ==
    IF b.mimetype # "application/json"
        THEN [value |-> None, exc |-> Exc(415, "UnsupportedMediaType")]
    ELSE IF ~b.parses
        THEN [value |-> None, exc |-> Exc(400, "BadRequest")]
    ELSE [value |-> b.value, exc |-> NoExc]

\* if request.method == "POST": data = request.get_json()
data_get_json(t) ==
    /\ pc[t] = "data"
    /\ req[t].method = "POST"
    /\ LET r == get_json(req[t].body)
       IN IF r.exc # NoExc
            THEN handle_exception(t, r.exc)
            ELSE /\ pc' = [pc EXCEPT ![t] = "insert_one"]
                 /\ data' = [data EXCEPT ![t] = r.value]
                 /\ UNCHANGED <<found, resp>>
    /\ UNCHANGED <<collection, inc, req, ops, before>>

\* insert_one gives a document without "_id" a fresh ObjectId, in place.
with_id(o, n) ==
    IF "_id" \in Keys(o) THEN o
    ELSE [k \in Keys(o) \cup {"_id"} |-> IF k = "_id" THEN ObjectId(n) ELSE o[k]]

\* The unique index on "_id".
duplicate_key(coll, d) == \E i \in DOMAIN coll : coll[i]["_id"] = d["_id"]

\* Variant: the document replaces the stored ones (replace_one with upsert).
insert_one_replace(coll, n, up, v) ==
    IF v.type # "object"
        THEN [exc |-> Exc(500, "TypeError"), doc |-> v, coll |-> coll, inc |-> n]
    ELSE LET d == with_id(v.obj, n)
             n2 == IF "_id" \in Keys(v.obj) THEN n ELSE n + 1
         IN IF ~up
              THEN [exc |-> Exc(500, "ServerSelectionTimeoutError"),
                    doc |-> JsonObject(d), coll |-> coll, inc |-> n2]
            ELSE [exc |-> NoExc, doc |-> JsonObject(d), coll |-> <<d>>, inc |-> n2]

\* Variant: a document equal to a stored one, "_id" aside, is not stored
\* again (update_one with upsert on the document itself).
insert_one_dedupe(coll, n, up, v) ==
    IF v.type # "object"
        THEN [exc |-> Exc(500, "TypeError"), doc |-> v, coll |-> coll, inc |-> n]
    ELSE LET d == with_id(v.obj, n)
             n2 == IF "_id" \in Keys(v.obj) THEN n ELSE n + 1
             same(e) == [k \in Keys(e) \ {"_id"} |-> e[k]] = [k \in Keys(d) \ {"_id"} |-> d[k]]
         IN IF ~up
              THEN [exc |-> Exc(500, "ServerSelectionTimeoutError"),
                    doc |-> JsonObject(d), coll |-> coll, inc |-> n2]
            ELSE IF \E i \in DOMAIN coll : same(coll[i])
              THEN [exc |-> NoExc, doc |-> JsonObject(d), coll |-> coll, inc |-> n2]
            ELSE [exc |-> NoExc, doc |-> JsonObject(d),
                  coll |-> Append(coll, d), inc |-> n2]

\* Variant: the write reaches the server although the call raises.
insert_one_partial(coll, n, up, v) ==
    IF v.type # "object"
        THEN [exc |-> Exc(500, "TypeError"), doc |-> v, coll |-> coll, inc |-> n]
    ELSE LET d == with_id(v.obj, n)
             n2 == IF "_id" \in Keys(v.obj) THEN n ELSE n + 1
         IN IF duplicate_key(coll, d)
              THEN [exc |-> Exc(500, "DuplicateKeyError"),
                    doc |-> JsonObject(d), coll |-> coll, inc |-> n2]
            ELSE IF ~up
              THEN [exc |-> Exc(500, "ServerSelectionTimeoutError"),
                    doc |-> JsonObject(d), coll |-> Append(coll, d), inc |-> n2]
            ELSE [exc |-> NoExc, doc |-> JsonObject(d),
                  coll |-> Append(coll, d), inc |-> n2]

\* Collection.insert_one(document): the exception it raises (NoExc if none),
\* the document as mutated, and the collection and counter afterwards.
insert_one(coll, n, up, v) ==
    IF v.type # "object"
        THEN [exc |-> Exc(500, "TypeError"), doc |-> v, coll |-> coll, inc |-> n]
    ELSE LET d == with_id(v.obj, n)
             n2 == IF "_id" \in Keys(v.obj) THEN n ELSE n + 1
         IN IF ~up
              THEN [exc |-> Exc(500, "ServerSelectionTimeoutError"),
                    doc |-> JsonObject(d), coll |-> coll, inc |-> n2]
            ELSE IF duplicate_key(coll, d)
              THEN [exc |-> Exc(500, "DuplicateKeyError"),
                    doc |-> JsonObject(d), coll |-> coll, inc |-> n2]
            ELSE [exc |-> NoExc, doc |-> JsonObject(d),
                  coll |-> Append(coll, d), inc |-> n2]

\* collection.insert_one(data)
data_insert_one(t) ==
    /\ pc[t] = "insert_one"
    /\ \E up \in BOOLEAN :
       LET r == insert_one(collection, inc, up, data[t])
       IN /\ collection' = r.coll
          /\ inc' = r.inc
          /\ IF r.exc # NoExc
               THEN handle_exception(t, r.exc)
               ELSE /\ pc' = [pc EXCEPT ![t] = "return_inserted"]
                    /\ data' = [data EXCEPT ![t] = r.doc]
                    /\ UNCHANGED <<found, resp>>
    /\ ops' = [ops EXCEPT ![t] = @ + 1]
    /\ UNCHANGED <<req, before>>

\* return jsonify({"status": "Data inserted"}), 201
data_return_inserted(t) ==
    /\ pc[t] = "return_inserted"
    /\ Send(t, jsonify_object([status |-> <<"str", "Data inserted">>], 201))
    /\ UNCHANGED <<collection, inc, req, ops, before>>

\* ------------------------------------------------------------- data: GET
\* Variant: find({}) without the projection.
project_none(d) == d

\* The projection {"_id": 0}.
project(d) == [k \in Keys(d) \ {"_id"} |-> d[k]]

\* Variant: find_one, which yields the first document only.
find_one(coll, up) ==
    IF ~up THEN [exc |-> Exc(500, "ServerSelectionTimeoutError"), docs |-> <<>>]
    ELSE [exc |-> NoExc,
          docs |-> [i \in (DOMAIN coll) \cap {1} |-> [k \in Keys(coll[i]) \ {"_id"} |-> coll[i][k]]]]

\* Variant: find(...).skip(1).
find_skip(coll, up) ==
    IF ~up THEN [exc |-> Exc(500, "ServerSelectionTimeoutError"), docs |-> <<>>]
    ELSE [exc |-> NoExc,
          docs |-> [i \in 1..(Len(coll) - 1) |->
                       [k \in Keys(coll[i + 1]) \ {"_id"} |-> coll[i + 1][k]]]]

\* list(collection.find({}, {"_id": 0})): the exception raised, or the list.
find(coll, up) ==
    IF ~up THEN [exc |-> Exc(500, "ServerSelectionTimeoutError"), docs |-> <<>>]
    ELSE [exc |-> NoExc, docs |-> [i \in DOMAIN coll |-> project(coll[i])]]

\* Variant: the documents read are removed (find_one_and_delete in a loop).
data_find_and_delete(t) ==
    /\ pc[t] = "data"
    /\ req[t].method = "GET"
    /\ \E up \in BOOLEAN :
       LET r == find(collection, up)
       IN IF r.exc # NoExc
            THEN /\ handle_exception(t, r.exc)
                 /\ collection' = collection
            ELSE /\ pc' = [pc EXCEPT ![t] = "return_found"]
                 /\ found' = [found EXCEPT ![t] = r.docs]
                 /\ collection' = <<>>
                 /\ UNCHANGED <<data, resp>>
    /\ ops' = [ops EXCEPT ![t] = @ + 1]
    /\ UNCHANGED <<inc, req, before>>

\* if request.method == "GET": data = list(collection.find({}, {"_id": 0}))
data_find(t) ==
    /\ pc[t] = "data"
    /\ req[t].method = "GET"
    /\ \E up \in BOOLEAN :
       LET r == find(collection, up)
       IN IF r.exc # NoExc
            THEN handle_exception(t, r.exc)
            ELSE /\ pc' = [pc EXCEPT ![t] = "return_found"]
                 /\ found' = [found EXCEPT ![t] = r.docs]
                 /\ UNCHANGED <<data, resp>>
    /\ ops' = [ops EXCEPT ![t] = @ + 1]
    /\ UNCHANGED <<collection, inc, req, before>>

\* return jsonify(data), 200
data_return_found(t) ==
    /\ pc[t] = "return_found"
    /\ Send(t, jsonify_list(found[t], 200))
    /\ UNCHANGED <<collection, inc, req, ops, before>>

\* Neither branch is taken (HEAD): the view returns None, which Flask
\* rejects with a TypeError.
data_return_none(t) ==
    /\ pc[t] = "data"
    /\ req[t].method \notin {"POST", "GET"}
    /\ handle_exception(t, Exc(500, "TypeError"))
    /\ UNCHANGED <<collection, inc, req, ops, before>>

Next ==
    \/ \E t \in Threads : \E r \in Requests : Receive(t, r)
    \/ \E t \in Threads : index(t)
    \/ \E t \in Threads : data_get_json(t)
    \/ \E t \in Threads : data_insert_one(t)
    \/ \E t \in Threads : data_return_inserted(t)
    \/ \E t \in Threads : data_find(t)
    \/ \E t \in Threads : data_return_found(t)
    \/ \E t \in Threads : data_return_none(t)

Spec == Init /\ [][Next]_vars

\* =================================================================
\* Vocabulary of the properties
\* =================================================================
Done(t) == pc[t] = "done"
IsPost(t) == req[t].path = "/data" /\ req[t].method = "POST"
IsGetData(t) == req[t].path = "/data" /\ req[t].method = "GET"
IsIndex(t) == req[t].path = "/" /\ req[t].method = "GET"
Is4xx(s) == s \in 400..499
Is5xx(s) == s \in 500..599

\* The thread took a step.
Stepped(t) == pc'[t] # pc[t]

\* The request body is a JSON object / is JSON but no object / is not JSON.
IsObjectBody(b) == b.mimetype = "application/json" /\ b.parses /\ b.value.type = "object"
IsNonObjectJson(b) == b.mimetype = "application/json" /\ b.parses /\ b.value.type # "object"
IsNotJson(b) == b.mimetype # "application/json" \/ ~b.parses

\* The document a POST carries, and a document with its identity field removed.
Posted(t) == req[t].body.value.obj
WithoutId(d) == [k \in (DOMAIN d) \ {"_id"} |-> d[k]]

Range(f) == {f[i] : i \in DOMAIN f}
Count(f, x) == Cardinality({i \in DOMAIN f : f[i] = x})

Answered(t, status) == Done(t) /\ resp[t].status = status

\* The POSTs acknowledged with 201 before request g arrived.
AckedBefore(g) == {p \in before[g] : IsPost(p) /\ resp[p].status = 201}

\* No POST overlaps GET g: each POST that arrived was answered before g
\* arrived, or has failed, or has not reached its insert yet.
Quiet(g) ==
    \A u \in Threads :
        (IsPost(u) /\ pc[u] # "new") =>
            \/ u \in before[g]
            \/ pc[u] \in {"data", "insert_one"}
            \/ (Done(u) /\ resp[u].status # 201)

\* The POSTs whose insert_one has succeeded.
Inserted == {p \in Threads : IsPost(p) /\ (pc[p] = "return_inserted" \/ Answered(p, 201))}

\* The exceptions a failing database call raises, and the requests answered
\* with the error page of one.
DbErrors == {"ServerSelectionTimeoutError", "DuplicateKeyError"}

FailedInDb(t) == Done(t) /\ resp[t].kind = "error" /\ resp[t].text[1] \in DbErrors

\* b starts with a.
IsPrefix(a, b) == Len(a) <= Len(b) /\ \A i \in DOMAIN a : a[i] = b[i]

\* f and g hold the same elements the same number of times.
SameBag(f, g) == \A x \in Range(f) \cup Range(g) : Count(f, x) = Count(g, x)

\* The documents of a set of POSTs, identity removed, as a sequence.
RECURSIVE DocsOf(_)
DocsOf(ps) ==
    IF ps = {} THEN <<>>
    ELSE LET p == CHOOSE q \in ps : TRUE
         IN Append(DocsOf(ps \ {p}), WithoutId(Posted(p)))

\* -----------------------------------------------------------------
\* C1: a POST of a JSON object D acknowledged with 201 before a GET /data
\* arrives (whatever other requests were served in between) has D, identity
\* field removed, among the elements the GET returns.
C1_PostThenGetContains ==
    \A g \in Threads : \A p \in Threads :
        (IsGetData(g) /\ Answered(g, 200) /\ p \in AckedBefore(g)) =>
            \E i \in DOMAIN resp[g].docs : resp[g].docs[i] = WithoutId(Posted(p))

\* {"a": 1} is posted twice, and a later GET returns it twice.
C1_Witness ==
    \E g \in Threads : \E p, q \in Threads :
        /\ p # q
        /\ IsGetData(g) /\ Answered(g, 200)
        /\ {p, q} \subseteq AckedBefore(g)
        /\ Posted(p) = DocA /\ Posted(q) = DocA
        /\ resp[g].docs = <<DocA, DocA>>

\* -----------------------------------------------------------------
\* C2: a POST whose body is not JSON (malformed, or missing) is answered
\* with a 4xx status, makes no database call, and no step of it changes the
\* collection.
C2_NotJsonIs4xx ==
    /\ [](\A t \in Threads :
            (IsPost(t) /\ IsNotJson(req[t].body)) =>
                /\ ops[t] = 0
                /\ Done(t) => Is4xx(resp[t].status))
    /\ [][\A t \in Threads :
            (Stepped(t) /\ IsPost(t)' /\ IsNotJson(req'[t].body)) =>
                collection' = collection]_vars

\* A malformed body got 400 and a missing body 415 while a document is stored.
C2_Witness ==
    \E t, u \in Threads :
        /\ IsPost(t) /\ req[t].body = MalformedBody /\ Answered(t, 400)
        /\ IsPost(u) /\ req[u].body = NoBody /\ Answered(u, 415)
        /\ Len(collection) = 1

\* -----------------------------------------------------------------
\* C3: no write is lost or duplicated under concurrency.  In every state the
\* collection holds, identity aside, exactly one document per POST whose
\* insert succeeded; and a GET /data that no POST overlaps returns exactly
\* the documents of the POSTs acknowledged before it, one per POST.
C3_NoLostWrites ==
    /\ SameBag([i \in DOMAIN collection |-> WithoutId(collection[i])], DocsOf(Inserted))
    /\ \A g \in Threads :
        (IsGetData(g) /\ Answered(g, 200) /\ Quiet(g)) =>
            SameBag(resp[g].docs, DocsOf(AckedBefore(g)))

\* Two POSTs of distinct documents are between insert and response at the
\* same time, and both documents are stored.
C3_Witness ==
    \E p, q \in Threads :
        /\ IsPost(p) /\ IsPost(q)
        /\ pc[p] = "return_inserted" /\ pc[q] = "return_inserted"
        /\ Posted(p) # Posted(q)
        /\ Len(collection) = 2

\* -----------------------------------------------------------------
\* C4: a POST whose body is valid JSON but no JSON object is answered with
\* a 4xx status (and adds no document).
C4_NonObjectIs4xx ==
    \A t \in Threads :
        (IsPost(t) /\ IsNonObjectJson(req[t].body) /\ Done(t)) =>
            Is4xx(resp[t].status)

\* -----------------------------------------------------------------
\* C5: every POST that is answered without an error is answered 201 with
\* the body {"status": "Data inserted"}; the collection holds exactly one
\* document per successful insert; and a GET /data that no POST overlaps
\* returns as many elements as POSTs were acknowledged before it.
C5_OnePerPost ==
    /\ \A t \in Threads :
        (IsPost(t) /\ Done(t) /\ resp[t].kind # "error") =>
            /\ resp[t].status = 201
            /\ resp[t].kind = "json_object"
            /\ resp[t].obj = [status |-> <<"str", "Data inserted">>]
    /\ Len(collection) = Cardinality(Inserted)
    /\ \A g \in Threads :
        (IsGetData(g) /\ Answered(g, 200) /\ Quiet(g)) =>
            Len(resp[g].docs) = Cardinality(AckedBefore(g))

\* {"a": 1} and {"b": 2} were posted, and the GET returns exactly the two.
C5_Witness ==
    \E g \in Threads : \E p, q \in Threads :
        /\ IsGetData(g) /\ Answered(g, 200)
        /\ AckedBefore(g) = {p, q}
        /\ Posted(p) = DocA /\ Posted(q) = DocB
        /\ Len(resp[g].docs) = 2
        /\ Range(resp[g].docs) = {DocA, DocB}

\* -----------------------------------------------------------------
\* C6: no response exposes the identity field: no element of a GET /data
\* array has an "_id" key, and a POST response has neither an "_id" key
\* nor an ObjectId value.
C6_NoIdentityExposed ==
    \A t \in Threads :
        Done(t) =>
            /\ \A i \in DOMAIN resp[t].docs : "_id" \notin DOMAIN resp[t].docs[i]
            /\ "_id" \notin DOMAIN resp[t].obj
            /\ \A k \in DOMAIN resp[t].obj : resp[t].obj[k][1] # "oid"

\* A GET returned two documents, one stored under a client-supplied "_id"
\* and one under an ObjectId assigned by insert_one.
C6_Witness ==
    \E g \in Threads :
        /\ IsGetData(g) /\ Answered(g, 200)
        /\ Len(resp[g].docs) = 2
        /\ \E i, j \in DOMAIN collection :
            collection[i]["_id"] = Int1 /\ collection[j]["_id"][1] = "oid"

C8_GetReturnsStored ==
    \A g \in Threads :
        (IsGetData(g) /\ Done(g) /\ resp[g].kind # "error") =>
            /\ resp[g].status = 200
            /\ resp[g].kind = "json_array"
            /\ Len(resp[g].docs) <= Len(collection)
            /\ \A i \in DOMAIN resp[g].docs : resp[g].docs[i] = WithoutId(collection[i])
            /\ Len(resp[g].docs) >= Cardinality(AckedBefore(g))
            /\ (Inserted \subseteq AckedBefore(g)) => Len(resp[g].docs) = Len(collection)

\* GET /data on the empty collection returned [] with status 200.
C8_Witness ==
    \E g \in Threads :
        /\ IsGetData(g) /\ Answered(g, 200)
        /\ resp[g].kind = "json_array"
        /\ resp[g].docs = <<>>
        /\ collection = <<>>

\* -----------------------------------------------------------------
\* C9: GET / is always answered 200 with a text containing "Welcome to the
\* Flask app!"; it makes no database call, and no step of it changes the
\* collection or the ObjectId counter.
C9_IndexWelcome ==
    /\ [](\A t \in Threads :
            IsIndex(t) =>
                /\ ops[t] = 0
                /\ Done(t) =>
                    /\ resp[t].status = 200
                    /\ resp[t].kind = "text"
                    /\ Welcome \in Range(resp[t].text))
    /\ [][\A t \in Threads :
            (Stepped(t) /\ IsIndex(t)') =>
                (collection' = collection /\ inc' = inc)]_vars

\* GET / was answered with the greeting in a run where a document is stored
\* and another request found the database unreachable.
C9_Witness ==
    \E t, u \in Threads :
        /\ IsIndex(t) /\ Answered(t, 200)
        /\ Welcome \in Range(resp[t].text)
        /\ FailedInDb(u) /\ resp[u].text[1] = "ServerSelectionTimeoutError"
        /\ Len(collection) = 1

\* -----------------------------------------------------------------
\* C10: the collection only grows.  Every step leaves the stored documents
\* in place and unmodified; only steps of a POST /data change the
\* collection; and every document a GET /data returned is returned, as
\* often, by every GET /data that arrived after that response.
C10_OnlyGrows ==
    /\ [][IsPrefix(collection, collection')]_vars
    /\ [][\A t \in Threads :
            (Stepped(t) /\ ~IsPost(t)') => collection' = collection]_vars
    /\ [](\A g, h \in Threads :
            (/\ IsGetData(g) /\ Answered(g, 200)
             /\ IsGetData(h) /\ Answered(h, 200)
             /\ g \in before[h]) =>
                \A x \in Range(resp[g].docs) :
                    Count(resp[g].docs, x) <= Count(resp[h].docs, x))

\* A GET returned a document, and a GET that arrived later returned it too.
C10_Witness ==
    \E g, h \in Threads :
        /\ IsGetData(g) /\ Answered(g, 200)
        /\ IsGetData(h) /\ Answered(h, 200)
        /\ g \in before[h]
        /\ resp[g].docs # <<>>
        /\ Range(resp[g].docs) \subseteq Range(resp[h].docs)

====
